---------------------------- MODULE Spec2Model ----------------------------
(***************************************************************************)
(* A model of the routing services of direction-route:                     *)
(*   services/cache.py       TTLCache (get, set, _evict_if_needed)         *)
(*   services/geocoding.py   geocode (blank check, cache, retry loop)      *)
(*   services/tsp_solver.py  solve_tsp_route (matrix, 24 orders, legs)     *)
(*   services/osrm_client.py route, table (cache, one request)             *)
(* Time is counted in whole units of 1.5 s, the base of geocode's backoff. *)
(***************************************************************************)
EXTENDS Integers, Sequences, FiniteSets, TLC

VARIABLES
    store,      \* TTLCache._store: the dict, as its entries in insertion order
    now,        \* time.time()
    lastOp,     \* the cache call that has just returned (observation)
    live,       \* per key: the entry of the last set, until a set evicts it
    sawAbsent   \* per key: a get has returned None since the key was last set

cacheVars == <<store, now, lastOp, live, sawAbsent>>

\* geocode (services/geocoding.py)
VARIABLES
    gpc,          \* where the call is: "idle", "waiting", "done", "failed"
    query,        \* the query argument, as its characters
    limit,        \* the limit argument
    attempt,      \* the loop variable of range(3)
    last_error,
    georesult,    \* the list returned, or None
    geoerror,     \* the GeocodingServiceError raised, or None
    requests,     \* requests.get calls of the current call (observation)
    waits,        \* time.sleep calls of the current call, their lengths
    cacheReads,   \* _cache.get calls of the current call
    cacheWrites,  \* _cache.set calls of the current call
    calls,        \* geocode calls so far
    lastResponse, \* what the latest requests.get of the call did (observation)
    fetched,      \* per cache key: the last body cached, when, and whether a
                  \* later set has evicted it (observation)
    prior,        \* fetched[key] and the time, as the current call began
    gbefore       \* the cache and the time, as the current call began

geoVars == <<gpc, query, limit, attempt, last_error, georesult, geoerror,
             requests, waits, cacheReads, cacheWrites, calls, lastResponse,
             fetched, prior, gbefore>>

\* solve_tsp_route (services/tsp_solver.py)
VARIABLES
    tpc,              \* where the call is: "idle", "table", "route", "done", "failed"
    destinations,     \* the destinations argument
    return_to_origin, \* the return_to_origin argument
    table_data,       \* what osrm_client.table returned
    best,             \* best_order, best_total_distance, best_total_duration
    ranked_destinations,
    from_point,
    result,           \* the returned dict, or NoResult
    error,            \* the exception the call raised, or None
    tableCalls,       \* calls of osrm_client.table so far (observation)
    routeCalls,       \* calls of osrm_client.route so far, as <<from, to>> pairs
    legOutcomes       \* what each osrm_client.route call did (observation)

tspVars == <<tpc, destinations, return_to_origin, table_data, best,
             ranked_destinations, from_point, result, error, tableCalls,
             routeCalls, legOutcomes>>

\* osrm_client.route and osrm_client.table (services/osrm_client.py)
VARIABLES
    opc,        \* where the call is: "idle", "waiting", "done", "failed"
    okey,       \* cache_key of the call
    oresult,    \* the dict returned, or None
    oerror,     \* the exception the call raised, or None
    orequests,  \* requests.get calls of the current call (observation)
    oresponse,  \* what the requests.get of the call did (observation)
    ocalls,     \* route and table calls so far
    obefore     \* the cache and the time, as the current call began

osrmVars == <<opc, okey, oresult, oerror, orequests, oresponse, ocalls,
              obefore>>

\* Two threads, each in one TTLCache.set call on the same instance
VARIABLES
    pc,         \* per thread: the statement of set / _evict_if_needed it is at
    setKey,     \* per thread: the key argument
    oldest,     \* per thread: the local oldest_key
    snapshot,   \* per thread: the dict as min() began to iterate over it
    overlapped  \* a thread entered set while the other was inside it

concVars == <<pc, setKey, oldest, snapshot, overlapped>>

vars == <<cacheVars, geoVars, tspVars, osrmVars, concVars>>

(***************************************************************************)
(* Bounds of the model.                                                    *)
(***************************************************************************)
MaxTime == 2

\* TTLCache(ttl_seconds, max_size): the constructor's arguments, scaled down.
ttl == 1
max_size == 2

Keys == {"a", "b", "c", "d"}
Values == {"v1", "v2"}

None == "None"
NoEntry == [t |-> -1, v |-> None]
Idle == [op |-> "idle"]

(***************************************************************************)
(* The dict self._store. Python dicts iterate in insertion order, and an   *)
(* assignment to an existing key keeps the key's position.                 *)
(***************************************************************************)
KeyIndex(s, k) ==
    IF \E i \in 1..Len(s) : s[i].key = k
    THEN CHOOSE i \in 1..Len(s) : s[i].key = k
    ELSE 0

DictHas(s, k) == KeyIndex(s, k) # 0

DictGet(s, k) == s[KeyIndex(s, k)]

DictAssign(s, k, t, v) ==
    LET e == [key |-> k, ts |-> t, value |-> v]
    IN  IF KeyIndex(s, k) = 0 THEN Append(s, e)
        ELSE [s EXCEPT ![KeyIndex(s, k)] = e]

DictPop(s, k) ==
    LET i == KeyIndex(s, k)
    IN  IF i = 0 THEN s
        ELSE [j \in 1..(Len(s) - 1) |-> IF j < i THEN s[j] ELSE s[j + 1]]

DictKeys(s) == {s[i].key : i \in 1..Len(s)}

\* Faulty variant: among the keys with the least timestamp the last one, in
\* iteration order, is taken.
oldest_key_last(s) ==
    LET i == CHOOSE i \in 1..Len(s) :
                 /\ \A j \in 1..Len(s) : s[i].ts <= s[j].ts
                 /\ \A j \in (i + 1)..Len(s) : s[j].ts > s[i].ts
    IN  s[i].key

\* min(self._store, key=lambda k: self._store[k][0]): the first key, in
\* iteration order, among those with the least timestamp.
oldest_key(s) ==
    LET i == CHOOSE i \in 1..Len(s) :
                 /\ \A j \in 1..Len(s) : s[i].ts <= s[j].ts
                 /\ \A j \in 1..(i - 1) : s[j].ts > s[i].ts
    IN  s[i].key

\* Faulty variant: the size test is off by one.
evict_off_by_one(s) ==
    IF Len(s) <= max_size + 1 THEN s
    ELSE DictPop(s, oldest_key(s))

evict_if_needed(s) ==
    IF Len(s) <= max_size THEN s
    ELSE DictPop(s, oldest_key(s))

\* TTLCache.get: what it returns, and the store it leaves.
\* Faulty variant: an entry whose age equals ttl counts as expired.
Expired_at_ttl(e, t) == t - e.ts >= ttl

Expired(e, t) == t - e.ts > ttl

get_result(s, k, t) ==
    IF ~DictHas(s, k) THEN None
    ELSE IF Expired(DictGet(s, k), t) THEN None
    ELSE DictGet(s, k).value

get_store(s, k, t) ==
    IF ~DictHas(s, k) THEN s
    ELSE IF Expired(DictGet(s, k), t) THEN DictPop(s, k)
    ELSE s

\* TTLCache.set: the store it leaves.
set_store(s, k, v, t) == evict_if_needed(DictAssign(s, k, t, v))

(***************************************************************************)
(* The cache on its own: serialized get and set calls and the clock.       *)
(***************************************************************************)
CacheInit ==
    /\ store = << >>
    /\ now = 0
    /\ lastOp = Idle
    /\ live = [k \in Keys |-> NoEntry]
    /\ sawAbsent = [k \in Keys |-> FALSE]

get(k) ==
    LET r == get_result(store, k, now)
    IN  /\ store' = get_store(store, k, now)
        /\ lastOp' = [op |-> "get", key |-> k, result |-> r, at |-> now,
                      priorAbsent |-> sawAbsent[k]]
        /\ sawAbsent' = [sawAbsent EXCEPT ![k] = @ \/ (r = None)]
        /\ UNCHANGED <<now, live, geoVars, tspVars, osrmVars, concVars>>

set(k, v) ==
    LET after == set_store(store, k, v, now)
        evicted == (DictKeys(store) \cup {k}) \ DictKeys(after)
    IN  /\ store' = after
        /\ lastOp' = [op |-> "set", key |-> k, value |-> v, at |-> now,
                      evicted |-> evicted, sizeBefore |-> Len(store)]
        /\ live' = [x \in Keys |->
                       IF x \in evicted THEN NoEntry
                       ELSE IF x = k THEN [t |-> now, v |-> v]
                       ELSE live[x]]
        /\ sawAbsent' = [sawAbsent EXCEPT ![k] = FALSE]
        /\ UNCHANGED <<now, geoVars, tspVars, osrmVars, concVars>>

Tick ==
    /\ now < MaxTime
    /\ now' = now + 1
    /\ lastOp' = Idle
    /\ UNCHANGED <<store, live, sawAbsent, geoVars, tspVars, osrmVars, concVars>>

(***************************************************************************)
(* solve_tsp_route (services/tsp_solver.py).                               *)
(***************************************************************************)
\* Bounds of the matrices the table call answers with.
MaxCoef == 4
MaxShift == 1

Idx == 0..4
Labels == <<"A", "B", "C", "D", "E">>

origin == [label |-> "O", lat |-> 0, lon |-> 0]
Stop(i) == [label |-> Labels[i], lat |-> i, lon |-> i]

\* The destination lists a caller passes: n stops, of which stop dup (if any)
\* is a point equal to the origin in label and coordinates.
DestinationList(n, dup) == [i \in 1..n |-> IF i = dup THEN origin ELSE Stop(i)]
DestinationLists ==
    {DestinationList(4, dup) : dup \in 0..4}
        \cup {DestinationList(3, 0), DestinationList(5, 0)}

\* A 5x5 table with a zero diagonal and cells 1..7 elsewhere.
Mix(a, b, c) ==
    [i \in Idx |-> [j \in Idx |->
        IF i = j THEN 0 ELSE ((a * i + b * j + c) % 7) + 1]]

NoTable == [kind |-> "missing"]
EmptyTable == [kind |-> "empty"]
FullTable(m) == [kind |-> "table", cells |-> m]

GoodResponses ==
    {[raised |-> FALSE,
      distances |-> FullTable(Mix(a, b, c)),
      durations |-> FullTable(Mix(b + 1, a, c + 2))] :
        a \in 1..MaxCoef, b \in 1..MaxCoef, c \in 0..MaxShift}

SomeTable == FullTable(Mix(1, 2, 0))

BadResponses ==
    {[raised |-> FALSE, distances |-> d, durations |-> u] :
        d \in {NoTable, EmptyTable, SomeTable},
        u \in {NoTable, EmptyTable}}
    \cup {[raised |-> FALSE, distances |-> d, durations |-> SomeTable] :
        d \in {NoTable, EmptyTable}}

TableRaised == [raised |-> TRUE, distances |-> NoTable, durations |-> NoTable]

TableResponses == GoodResponses \cup BadResponses \cup {TableRaised}

\* Python's truth value of table_data.get(...): None and [] are false.
Falsy(t) == t.kind # "table"

\* itertools.permutations(pool): for each position in turn, that element
\* followed by the permutations of the others.
Without(pool, i) ==
    [j \in 1..(Len(pool) - 1) |-> IF j < i THEN pool[j] ELSE pool[j + 1]]

RECURSIVE Concat(_, _)
Concat(f, n) == IF n = 0 THEN << >> ELSE Concat(f, n - 1) \o f[n]

RECURSIVE permutations(_)
permutations(pool) ==
    IF Len(pool) = 0 THEN << << >> >>
    ELSE LET tails == [i \in 1..Len(pool) |-> permutations(Without(pool, i))]
             block == [i \in 1..Len(pool) |->
                          [n \in 1..Len(tails[i]) |-> <<pool[i]>> \o tails[i][n]]]
         IN  Concat(block, Len(pool))

dest_indices == <<1, 2, 3, 4>>
AllPerms == permutations(dest_indices)

\* Faulty variant: the closing leg is never appended.
route_indices_open(perm, rto) == <<0>> \o perm

\* Lines 63-65: the visit sequence of one permutation.
route_indices(perm, rto) == IF rto THEN <<0>> \o perm \o <<0>> ELSE <<0>> \o perm

\* Lines 67-74: the sum of a table along the visit sequence.
RECURSIVE SumAlong(_, _, _)
SumAlong(cells, r, n) ==
    IF n = 0 THEN 0
    ELSE SumAlong(cells, r, n - 1) + cells[r[n]][r[n + 1]]

total(cells, perm, rto) ==
    SumAlong(cells, route_indices(perm, rto), Len(route_indices(perm, rto)) - 1)

\* Lines 55-58 and 79-83: best_cost starts at infinity; a permutation
\* replaces the best one when its cost is strictly smaller.
NoBest == [inf |-> TRUE, order |-> << >>, total_distance |-> 0,
           total_duration |-> 0]

\* Faulty variant: the comparison is reversed.
Better_reversed(cost, b) == b.inf \/ cost > b.total_distance

\* Faulty variant: a tie replaces the best permutation.
Better_or_equal(cost, b) == b.inf \/ cost <= b.total_distance

Better(cost, b) == b.inf \/ cost < b.total_distance

RECURSIVE best_after(_, _, _, _)
best_after(n, dist, dur, rto) ==
    IF n = 0 THEN NoBest
    ELSE LET b == best_after(n - 1, dist, dur, rto)
             perm == AllPerms[n]
             total_distance == total(dist, perm, rto)
             total_duration == total(dur, perm, rto)
         IN  IF Better(total_distance, b)
             THEN [inf |-> FALSE, order |-> perm,
                   total_distance |-> total_distance,
                   total_duration |-> total_duration]
             ELSE b

\* tuple.index(x), 0-based; NotFound stands for the ValueError it raises.
NotFound == [found |-> FALSE, at |-> 0]
index(seq, x) ==
    IF \E i \in 1..Len(seq) : seq[i] = x
    THEN [found |-> TRUE,
          at |-> (CHOOSE i \in 1..Len(seq) :
                     seq[i] = x /\ \A j \in 1..(i - 1) : seq[j] # x) - 1]
    ELSE NotFound

\* The osrm_client.route outcomes: a body with one candidate, a body with an
\* empty candidate list, or an exception.
route0 == [distance |-> 50, duration |-> 70, geometry |-> "LineString"]
RouteOutcomes ==
    {[kind |-> "ok", routes |-> <<route0>>],
     [kind |-> "empty", routes |-> << >>],
     [kind |-> "raise", routes |-> << >>]}

Leg(distance, duration, geometry) ==
    [raised |-> FALSE, distance |-> distance, duration |-> duration,
     geometry |-> geometry]
LegRaised == [raised |-> TRUE, distance |-> 0, duration |-> 0, geometry |-> None]

\* Lines 112-118: the except branch.
leg_except(fp, order, dest_idx, dist, dur) ==
    LET pos == index(order, dest_idx)
    IN  IF fp = origin
        THEN Leg(dist[0][dest_idx], dur[0][dest_idx], None)
        ELSE IF ~pos.found THEN LegRaised
        ELSE Leg(dist[pos.at + 1][dest_idx], dur[pos.at + 1][dest_idx], None)

\* Faulty variant: the ValueError of tuple.index escapes the call.
leg_empty_uncaught(fp, order, dest_idx, dist, dur) ==
    LET pos == index(order, dest_idx - 1)
    IN  IF fp = origin
        THEN Leg(dist[0][dest_idx], dur[0][dest_idx], None)
        ELSE IF ~pos.found THEN LegRaised
        ELSE Leg(dist[pos.at + 1][dest_idx], dur[pos.at + 1][dest_idx], None)

\* Lines 106-111: the branch for an empty candidate list. It runs inside the
\* try block, so the ValueError of tuple.index lands in the except branch.
leg_empty(fp, order, dest_idx, dist, dur) ==
    LET pos == index(order, dest_idx - 1)
    IN  IF fp = origin
        THEN Leg(dist[0][dest_idx], dur[0][dest_idx], None)
        ELSE IF ~pos.found THEN leg_except(fp, order, dest_idx, dist, dur)
        ELSE Leg(dist[pos.at + 1][dest_idx], dur[pos.at + 1][dest_idx], None)

\* Lines 93-118: one leg from the outcome of its osrm_client.route call.
leg_of(o, fp, order, dest_idx, dist, dur) ==
    IF o.kind = "raise" THEN leg_except(fp, order, dest_idx, dist, dur)
    ELSE IF Len(o.routes) > 0
         THEN Leg(o.routes[1].distance, o.routes[1].duration,
                  o.routes[1].geometry)
    ELSE leg_empty(fp, order, dest_idx, dist, dur)

NoResult == [returned |-> FALSE]
NoPoint == [label |-> "", lat |-> 0, lon |-> 0]

TspInit ==
    /\ tpc = "idle"
    /\ destinations = << >>
    /\ return_to_origin = FALSE
    /\ table_data = TableRaised
    /\ best = NoBest
    /\ ranked_destinations = << >>
    /\ from_point = NoPoint
    /\ result = NoResult
    /\ error = None
    /\ tableCalls = 0
    /\ routeCalls = << >>
    /\ legOutcomes = << >>

\* Faulty variant: more than 4 destinations pass the count check.
count_at_least(dests) == Len(dests) >= 4

\* Lines 31-40: the count check, then the call of osrm_client.table.
count_ok(dests) == Len(dests) = 4

solve_tsp_route(dests, rto) ==
    /\ tpc = "idle"
    /\ destinations' = dests
    /\ return_to_origin' = rto
    /\ IF count_ok(dests)
       THEN /\ tpc' = "table"
            /\ tableCalls' = tableCalls + 1
            /\ error' = None
       ELSE /\ tpc' = "failed"
            /\ error' = "ValueError: Exactly 4 destinations are required"
            /\ UNCHANGED tableCalls
    /\ UNCHANGED <<table_data, best, ranked_destinations, from_point, result,
                   routeCalls, legOutcomes, cacheVars, geoVars,
                   osrmVars, concVars>>

\* Faulty variant: every leg is routed from the origin.
route_call_from_origin(fp, dest) == [from |-> origin, to |-> dest]

\* Lines 94-99: the arguments of one osrm_client.route call.
route_call(fp, dest) == [from |-> fp, to |-> dest]

\* Lines 41-49: what ends the call once osrm_client.table is back.
table_error(resp) ==
    IF resp.raised THEN "Failed to get distance matrix"
    ELSE IF Falsy(resp.durations) \/ Falsy(resp.distances)
         THEN "Invalid response from OSRM Table API"
    ELSE None

\* Faulty variant: a failed or unusable matrix is logged and an empty result returned.
table_return_partial(resp) ==
    /\ tpc = "table"
    /\ table_data' = resp
    /\ IF table_error(resp) # None
       THEN /\ tpc' = "done"
            /\ result' = [returned |-> TRUE, ranked_destinations |-> << >>]
            /\ UNCHANGED <<best, from_point, routeCalls, error>>
       ELSE LET b == best_after(Len(AllPerms), resp.distances.cells,
                                resp.durations.cells, return_to_origin)
            IN  /\ best' = b
                /\ from_point' = origin
                /\ routeCalls' = <<route_call(origin,
                                               destinations[b.order[1]])>>
                /\ tpc' = "route"
                /\ UNCHANGED <<error, result>>
    /\ UNCHANGED <<destinations, return_to_origin, ranked_destinations,
                   tableCalls, legOutcomes, cacheVars, geoVars,
                   osrmVars, concVars>>

\* Lines 41-99: osrm_client.table is back; on a usable matrix the 24 orders
\* are evaluated and the first leg's osrm_client.route call is made.
table_return(resp) ==
    /\ tpc = "table"
    /\ table_data' = resp
    /\ IF table_error(resp) # None
       THEN /\ tpc' = "failed"
            /\ error' = table_error(resp)
            /\ UNCHANGED <<best, from_point, routeCalls>>
       ELSE LET b == best_after(Len(AllPerms), resp.distances.cells,
                                resp.durations.cells, return_to_origin)
            IN  /\ best' = b
                /\ from_point' = origin
                /\ routeCalls' = <<route_call(origin,
                                               destinations[b.order[1]])>>
                /\ tpc' = "route"
                /\ UNCHANGED error
    /\ UNCHANGED <<destinations, return_to_origin, ranked_destinations, result,
                   tableCalls, legOutcomes, cacheVars, geoVars,
                   osrmVars, concVars>>

\* Faulty variant: total_distance_m is the sum of the legs' distances.
result_of_leg_sum(b, rto, ranked) ==
    [returned |-> TRUE,
     optimal_route |-> [total_distance_m |->
                            ranked[1].leg.distance_m + ranked[2].leg.distance_m
                                + ranked[3].leg.distance_m
                                + ranked[4].leg.distance_m,
                        total_duration_s |-> b.total_duration,
                        return_to_origin |-> rto],
     ranked_destinations |-> ranked]

\* Lines 138-147, without the rounded km and minute fields.
result_of(b, rto, ranked) ==
    [returned |-> TRUE,
     optimal_route |-> [total_distance_m |-> b.total_distance,
                        total_duration_s |-> b.total_duration,
                        return_to_origin |-> rto],
     ranked_destinations |-> ranked]

\* Faulty variant: the leg's 'from' is the destination's own label.
ranked_entry_from_self(rank, dest, fp, leg) ==
    [rank |-> rank, label |-> dest.label, lat |-> dest.lat, lon |-> dest.lon,
     leg |-> [from |-> dest.label,
              distance_m |-> leg.distance,
              duration_s |-> leg.duration,
              geometry |-> leg.geometry]]

\* Lines 120-133, without the rounded km and minute fields.
ranked_entry(rank, dest, fp, leg) ==
    [rank |-> rank, label |-> dest.label, lat |-> dest.lat, lon |-> dest.lon,
     leg |-> [from |-> fp.label,
              distance_m |-> leg.distance,
              duration_s |-> leg.duration,
              geometry |-> leg.geometry]]

\* Lines 89-147: one osrm_client.route call is back; its leg is appended and
\* either the next leg's call is made or the result is returned.
route_return(o) ==
    /\ tpc = "route"
    /\ LET rank == Len(ranked_destinations) + 1
           dest_idx == best.order[rank]
           dest == destinations[dest_idx]
           leg == leg_of(o, from_point, best.order, dest_idx,
                         table_data.distances.cells, table_data.durations.cells)
           entry == ranked_entry(rank, dest, from_point, leg)
       IN  /\ legOutcomes' = Append(legOutcomes, o.kind)
           /\ IF leg.raised
              THEN /\ tpc' = "failed"
                   /\ error' = "ValueError"
                   /\ UNCHANGED <<ranked_destinations, from_point, result,
                                  routeCalls>>
              ELSE /\ ranked_destinations' = Append(ranked_destinations, entry)
                   /\ from_point' = dest
                   /\ UNCHANGED error
                   /\ IF rank < Len(best.order)
                      THEN /\ routeCalls' =
                                Append(routeCalls,
                                       route_call(dest,
                                           destinations[best.order[rank + 1]]))
                           /\ UNCHANGED <<tpc, result>>
                      ELSE /\ tpc' = "done"
                           /\ result' = result_of(best, return_to_origin,
                                            Append(ranked_destinations, entry))
                           /\ UNCHANGED routeCalls
    /\ UNCHANGED <<destinations, return_to_origin, table_data, best, tableCalls,
                   cacheVars, geoVars,
                   osrmVars, concVars>>

(***************************************************************************)
(* geocode (services/geocoding.py), on its own TTLCache instance.          *)
(***************************************************************************)
MaxCalls == 2
MaxRepeatCalls == 4

Queries == {<< >>, <<" ">>, <<"\t", " ">>, <<"a">>, <<" ", "a">>}
\* The queries of the longer runs: one blank, three that differ as cache keys.
RepeatQueries == {<<" ">>, <<"a">>, <<" ", "a">>, <<"b">>}
Limits == {1, 5}
\* resp.json(): a list of places, the empty list, or null.
Bodies == {"[]", "[p1]", None}
Whitespace == {" ", "\t", "\n"}

\* str.strip(): the string without its leading and trailing whitespace.
RECURSIVE lstrip(_)
lstrip(q) ==
    IF Len(q) > 0 /\ q[1] \in Whitespace THEN lstrip(Tail(q)) ELSE q

RECURSIVE rstrip(_)
rstrip(q) ==
    IF Len(q) > 0 /\ q[Len(q)] \in Whitespace
    THEN rstrip(SubSeq(q, 1, Len(q) - 1)) ELSE q

strip(q) == rstrip(lstrip(q))

\* Faulty variant: the query is not stripped before the test.
blank_unstripped(q) == Len(q) = 0

\* Line 17: not query or not query.strip()
blank(q) == Len(q) = 0 \/ Len(strip(q)) = 0

\* Line 19: f"geocode:{query}:{limit}"
cache_key(q, lim) == <<"geocode", q, lim>>

\* Faulty variant: an empty result list counts as a miss.
cache_hit_truthy(cached) == cached \notin {None, "[]"}

\* Line 21: cached is not None
cache_hit(cached) == cached # None

\* Faulty variant: a 500 is retried too.
retryable_with_500(status) == status \in {429, 500, 503}

\* Line 55: resp.status_code in (429, 503)
retryable(status) == status \in {429, 503}

\* What one requests.get does: a transport failure, or a response.
Upstream ==
    {[kind |-> "transport", status |-> 0, body |-> None, detail |-> d] :
        d \in {"timeout", "reset"}}
    \cup {[kind |-> "http", status |-> 200, body |-> b, detail |-> None] :
        b \in Bodies}
    \cup {[kind |-> "http", status |-> st, body |-> None, detail |-> None] :
        st \in {403, 429, 500, 503}}

NoError == [kind |-> "none", status |-> 0, detail |-> None]
NoResponse == [kind |-> "none", status |-> 0, body |-> None, detail |-> None]
NoFetch == [t |-> -1, v |-> None, evicted |-> FALSE]
NoPrior == [entry |-> NoFetch, at |-> 0]
NoBefore == [store |-> << >>, at |-> 0]

\* The keys geocode can use.
GeoKeys ==
    {cache_key(q, lim) :
        q \in {x \in Queries \cup RepeatQueries : ~blank(x)}, lim \in Limits}

GeoInit ==
    /\ gpc = "idle"
    /\ query = << >>
    /\ limit = 0
    /\ attempt = 0
    /\ last_error = None
    /\ georesult = None
    /\ geoerror = NoError
    /\ requests = 0
    /\ waits = << >>
    /\ cacheReads = 0
    /\ cacheWrites = 0
    /\ calls = 0
    /\ lastResponse = NoResponse
    /\ fetched = [k \in GeoKeys |-> NoFetch]
    /\ prior = NoPrior
    /\ gbefore = NoBefore

Attempts == 3

GeocodingServiceError(kind, status, detail) ==
    [kind |-> kind, status |-> status, detail |-> detail]

\* Faulty variant: a 403 raises the generic provider error.
error_of_status_generic(status) ==
    GeocodingServiceError("provider", status, None)

\* Lines 62-64: the error raised for a status that is neither 200 nor retried.
error_of_status(status) ==
    GeocodingServiceError(IF status = 403 THEN "blocked" ELSE "provider",
                          status, None)

\* Lines 16-40: the blank check, the cache lookup and, on a miss, the first
\* requests.get of the loop.
geocode(q, lim) ==
    /\ gpc # "waiting"
    /\ calls' = calls + 1
    /\ query' = q
    /\ limit' = lim
    /\ attempt' = 0
    /\ last_error' = None
    /\ geoerror' = NoError
    /\ waits' = << >>
    /\ cacheWrites' = 0
    /\ lastResponse' = NoResponse
    /\ prior' = IF blank(q) THEN NoPrior
                ELSE [entry |-> fetched[cache_key(q, lim)], at |-> now]
    /\ gbefore' = [store |-> store, at |-> now]
    /\ UNCHANGED fetched
    /\ IF blank(q)
       THEN /\ georesult' = "[]"
            /\ gpc' = "done"
            /\ requests' = 0
            /\ cacheReads' = 0
            /\ UNCHANGED store
       ELSE LET cached == get_result(store, cache_key(q, lim), now)
            IN  /\ store' = get_store(store, cache_key(q, lim), now)
                /\ cacheReads' = 1
                /\ IF cache_hit(cached)
                   THEN /\ georesult' = cached
                        /\ gpc' = "done"
                        /\ requests' = 0
                   ELSE /\ georesult' = None
                        /\ gpc' = "waiting"
                        /\ requests' = 1
    /\ UNCHANGED <<now, lastOp, live, sawAbsent, tspVars, osrmVars, concVars>>

\* Faulty variant: once range(3) is used up an empty list is cached for the
\* query.
backoff_negative_cache(le) ==
    /\ now' = now + (attempt + 1)
    /\ waits' = Append(waits, attempt + 1)
    /\ last_error' = le
    /\ IF attempt + 1 < Attempts
       THEN /\ attempt' = attempt + 1
            /\ requests' = requests + 1
            /\ UNCHANGED <<gpc, geoerror, store>>
       ELSE /\ gpc' = "failed"
            /\ geoerror' = GeocodingServiceError("unavailable", 0,
                               IF le # None THEN le ELSE "unknown error")
            /\ store' = set_store(store, cache_key(query, limit), "[]", now)
            /\ UNCHANGED <<attempt, requests>>
    /\ UNCHANGED <<georesult, cacheWrites>>

\* Lines 45-47 and 55-58: time.sleep(1.5 * (attempt + 1)), then continue: the
\* next requests.get, or line 66 once range(3) is used up.
backoff(le) ==
    /\ now' = now + (attempt + 1)
    /\ waits' = Append(waits, attempt + 1)
    /\ last_error' = le
    /\ IF attempt + 1 < Attempts
       THEN /\ attempt' = attempt + 1
            /\ requests' = requests + 1
            /\ UNCHANGED <<gpc, geoerror>>
       ELSE /\ gpc' = "failed"
            /\ geoerror' = GeocodingServiceError("unavailable", 0,
                               IF le # None THEN le ELSE "unknown error")
            /\ UNCHANGED <<attempt, requests>>
    /\ UNCHANGED <<store, georesult, cacheWrites>>

\* Lines 42-64: one requests.get is back.
geocode_response(o) ==
    /\ gpc = "waiting"
    /\ lastResponse' = o
    /\ fetched' =
           IF o.kind = "http" /\ o.status = 200
           THEN [k \in GeoKeys |->
                   IF k = cache_key(query, limit)
                   THEN [t |-> now, v |-> o.body, evicted |-> FALSE]
                   ELSE IF DictHas(store, k)
                           /\ ~DictHas(set_store(store, cache_key(query, limit),
                                                 o.body, now), k)
                   THEN [fetched[k] EXCEPT !.evicted = TRUE]
                   ELSE fetched[k]]
           ELSE fetched
    /\ UNCHANGED <<prior, gbefore>>
    /\ IF o.kind = "transport" THEN backoff(o.detail)
       ELSE IF o.status = 200
       THEN /\ store' = set_store(store, cache_key(query, limit), o.body, now)
            /\ cacheWrites' = cacheWrites + 1
            /\ georesult' = o.body
            /\ gpc' = "done"
            /\ UNCHANGED <<now, waits, last_error, attempt, requests, geoerror>>
       ELSE IF retryable(o.status) THEN backoff(last_error)
       ELSE /\ gpc' = "failed"
            /\ geoerror' = error_of_status(o.status)
            /\ UNCHANGED <<store, now, waits, last_error, attempt, requests,
                           georesult, cacheWrites>>
    /\ UNCHANGED <<query, limit, cacheReads, calls, lastOp, live, sawAbsent,
                   tspVars, osrmVars, concVars>>

(***************************************************************************)
(* osrm_client.route and osrm_client.table (services/osrm_client.py), on   *)
(* the module's own TTLCache instance.                                     *)
(***************************************************************************)
MaxOsrmCalls == 3

Coords == {"o;a", "a;b"}
Invalid == "invalid"
\* The response body: two JSON documents and one that resp.json() rejects.
OsrmBodies == {"{routes}", "{}", Invalid}

\* Line 15: f"route:{profile}:{coords}:{overview}"
route_key(coords, overview) == <<"route", "car", coords, overview>>
\* Line 48: f"table:{profile}:{coords_str}"
table_key(coords_str) == <<"table", "car", coords_str>>

\* What the requests.get does: a transport failure, or a response.
OsrmUpstream ==
    {[kind |-> "transport", status |-> 0, body |-> None]}
    \cup {[kind |-> "http", status |-> st, body |-> b] :
             st \in {200, 304, 404, 503}, b \in OsrmBodies}

NoOsrmResponse == [kind |-> "none", status |-> 0, body |-> None]

\* Faulty variant: only the 5xx statuses raise.
raise_for_status_5xx(status) == status \in 500..599

\* Lines 28 and 58: Response.raise_for_status() raises HTTPError for the
\* statuses 400..599 and returns for any other.
raise_for_status(status) == status \in 400..599

OsrmInit ==
    /\ opc = "idle"
    /\ okey = << >>
    /\ oresult = None
    /\ oerror = None
    /\ orequests = 0
    /\ oresponse = NoOsrmResponse
    /\ ocalls = 0
    /\ obefore = NoBefore

\* Lines 13-27 and 45-57: the cache lookup and, on a miss, the requests.get.
osrm_call(key) ==
    /\ opc # "waiting"
    /\ ocalls' = ocalls + 1
    /\ okey' = key
    /\ oerror' = None
    /\ oresponse' = NoOsrmResponse
    /\ obefore' = [store |-> store, at |-> now]
    /\ store' = get_store(store, key, now)
    /\ LET cached == get_result(store, key, now)
       IN  IF cached # None
           THEN /\ oresult' = cached
                /\ opc' = "done"
                /\ orequests' = 0
           ELSE /\ oresult' = None
                /\ opc' = "waiting"
                /\ orequests' = 1
    /\ UNCHANGED <<now, lastOp, live, sawAbsent, geoVars, tspVars, concVars>>

route(coords, overview) == osrm_call(route_key(coords, overview))

table(coords_str) == osrm_call(table_key(coords_str))

\* Lines 27-31 and 57-61: the requests.get is back.
osrm_response(o) ==
    /\ opc = "waiting"
    /\ oresponse' = o
    /\ IF o.kind = "transport" \/ raise_for_status(o.status) \/ o.body = Invalid
       THEN /\ opc' = "failed"
            /\ oerror' = IF o.kind = "transport" THEN "RequestException"
                          ELSE IF raise_for_status(o.status) THEN "HTTPError"
                          ELSE "JSONDecodeError"
            /\ UNCHANGED <<store, oresult>>
       ELSE /\ store' = set_store(store, okey, o.body, now)
            /\ oresult' = o.body
            /\ opc' = "done"
            /\ UNCHANGED oerror
    /\ UNCHANGED <<okey, orequests, ocalls, obefore, now, lastOp, live, sawAbsent,
                   geoVars, tspVars, concVars>>

(***************************************************************************)
(* Two threads inside TTLCache.set on one instance, with no lock. The      *)
(* interpreter can switch threads between any two statements of set and    *)
(* _evict_if_needed, and inside min() between two calls of its key lambda. *)
(* A dict that changes size while min() iterates over it makes the         *)
(* iteration raise RuntimeError (or the lambda KeyError); one that changed *)
(* and is back at its size lets min() end on the old or on the new keys.   *)
(***************************************************************************)
Threads == {1, 2}
ThreadKeys == {"c", "d"}
PrefillKeys == {"a", "b"}

ConcInit ==
    /\ pc = [t \in Threads |-> "idle"]
    /\ setKey = [t \in Threads |-> None]
    /\ oldest = [t \in Threads |-> None]
    /\ snapshot = [t \in Threads |-> << >>]
    /\ overlapped = FALSE

Inside(t) == pc[t] \in {"evict", "min", "iterating", "pop"}

\* Line 29: self._store[key] = (time.time(), value)
assign(t, k) ==
    /\ pc[t] = "idle"
    /\ setKey' = [setKey EXCEPT ![t] = k]
    /\ store' = DictAssign(store, k, now, "v1")
    /\ pc' = [pc EXCEPT ![t] = "evict"]
    /\ overlapped' = (overlapped \/ \E u \in Threads \ {t} : Inside(u))
    /\ UNCHANGED <<oldest, snapshot, now, lastOp, live, sawAbsent, geoVars,
                   tspVars, osrmVars>>

\* Lines 12-13: if len(self._store) <= self._max_size: return
len_check(t) ==
    /\ pc[t] = "evict"
    /\ pc' = [pc EXCEPT ![t] = IF Len(store) <= max_size THEN "done" ELSE "min"]
    /\ UNCHANGED <<setKey, oldest, snapshot, overlapped, cacheVars, geoVars,
                   tspVars, osrmVars>>

\* Line 15: min() takes the dict's iterator.
min_begin(t) ==
    /\ pc[t] = "min"
    /\ snapshot' = [snapshot EXCEPT ![t] = store]
    /\ pc' = [pc EXCEPT ![t] = "iterating"]
    /\ UNCHANGED <<setKey, oldest, overlapped, cacheVars, geoVars, tspVars,
                   osrmVars>>

\* Line 15: min() is through the dict, or has raised.
min_end(t) ==
    /\ pc[t] = "iterating"
    /\ \/ /\ store = snapshot[t]
          /\ oldest' = [oldest EXCEPT ![t] = oldest_key(store)]
          /\ pc' = [pc EXCEPT ![t] = "pop"]
       \/ /\ store # snapshot[t]
          /\ pc' = [pc EXCEPT ![t] = "raised"]
          /\ UNCHANGED oldest
       \/ /\ store # snapshot[t]
          /\ Len(store) = Len(snapshot[t])
          /\ \E k \in {oldest_key(snapshot[t]), oldest_key(store)} :
                 oldest' = [oldest EXCEPT ![t] = k]
          /\ pc' = [pc EXCEPT ![t] = "pop"]
    /\ UNCHANGED <<setKey, snapshot, overlapped, cacheVars, geoVars, tspVars,
                   osrmVars>>

\* Faulty variant: the victim is not removed.
pop_skipped(t) ==
    /\ pc[t] = "pop"
    /\ pc' = [pc EXCEPT ![t] = "done"]
    /\ UNCHANGED <<store, setKey, oldest, snapshot, overlapped, now, lastOp,
                   live, sawAbsent, geoVars, tspVars, osrmVars>>

\* Line 16: self._store.pop(oldest_key, None)
pop(t) ==
    /\ pc[t] = "pop"
    /\ store' = DictPop(store, oldest[t])
    /\ pc' = [pc EXCEPT ![t] = "done"]
    /\ UNCHANGED <<setKey, oldest, snapshot, overlapped, now, lastOp, live,
                   sawAbsent, geoVars, tspVars, osrmVars>>

(***************************************************************************)
(* Properties of solve_tsp_route (under SpecTsp).                          *)
(***************************************************************************)
Selected == tpc \in {"route", "done"}
MatrixUsable ==
    /\ tpc \notin {"idle", "table"}
    /\ tableCalls = 1
    /\ ~table_data.raised
    /\ table_data.distances.kind = "table"
    /\ table_data.durations.kind = "table"

PermSet == {p \in [1..4 -> 1..4] : \A i, j \in 1..4 : p[i] = p[j] => i = j}

PathSum(cells, p, closing) ==
    cells[0][p[1]] + cells[p[1]][p[2]] + cells[p[2]][p[3]] + cells[p[3]][p[4]]
        + (IF closing THEN cells[p[4]][0] ELSE 0)

PathDistance(p) == PathSum(table_data.distances.cells, p, return_to_origin)

LexLess(p, q) ==
    \E i \in 1..4 : p[i] < q[i] /\ \A j \in 1..(i - 1) : p[j] = q[j]

\* C1: the selected order is a permutation of {1,2,3,4} whose path distance
\* (with the closing leg when return_to_origin) is at most that of each of the
\* 24 permutations, and that sum is what total_distance_m reports.
C1_GlobalMinimum ==
    Selected =>
        /\ best.order \in PermSet
        /\ best.total_distance = PathDistance(best.order)
        /\ \A p \in PermSet : best.total_distance <= PathDistance(p)
        /\ tpc = "done" =>
               result.optimal_route.total_distance_m = PathDistance(best.order)

C1_Witness ==
    /\ tpc = "done"
    /\ best.order # <<1, 2, 3, 4>>
    /\ \E p \in PermSet : PathDistance(p) > best.total_distance

\* C2: among the permutations of minimal path distance the selected one is
\* the first in lexicographic order, so the order is determined by the matrix
\* and the flag.
C2_TieBreak ==
    Selected =>
        \A p \in PermSet :
            PathDistance(p) = PathDistance(best.order) => ~LexLess(p, best.order)

C2_Witness ==
    /\ tpc = "done"
    /\ best.order # <<1, 2, 3, 4>>
    /\ \E p \in PermSet : p # best.order /\ PathDistance(p) = best.total_distance

PrevIndex(k) == IF k = 1 THEN 0 ELSE best.order[k - 1]

\* C3: a leg whose detail-route call raised has no geometry and carries the
\* matrix cells [prev][dest], prev being the point visited just before it.
C3_FailedLegUsesMatrixCell ==
    \A k \in 1..Len(ranked_destinations) :
        legOutcomes[k] = "raise" =>
            LET leg == ranked_destinations[k].leg
                dest == best.order[k]
            IN  /\ leg.geometry = None
                /\ leg.distance_m = table_data.distances.cells[PrevIndex(k)][dest]
                /\ leg.duration_s = table_data.durations.cells[PrevIndex(k)][dest]

\* C15: a leg whose detail-route call returned an empty candidate list has no
\* geometry and carries the matrix cells [prev][dest], prev being the point
\* visited just before it (0 for leg 1).
C15_EmptyLegUsesMatrixCell ==
    \A k \in 1..Len(ranked_destinations) :
        legOutcomes[k] = "empty" =>
            LET leg == ranked_destinations[k].leg
                dest == best.order[k]
            IN  /\ leg.geometry = None
                /\ leg.distance_m = table_data.distances.cells[PrevIndex(k)][dest]
                /\ leg.duration_s = table_data.durations.cells[PrevIndex(k)][dest]

\* The point visited just before the k-th destination of the winning order.
PrevPoint(k) == IF k = 1 THEN origin ELSE destinations[best.order[k - 1]]

ClientCalls ==
    /\ tableCalls <= 1
    /\ routeCalls # << >> => tableCalls = 1 /\ MatrixUsable
    /\ \A k \in 1..Len(routeCalls) :
           /\ routeCalls[k].from = PrevPoint(k)
           /\ routeCalls[k].to = destinations[best.order[k]]
    /\ tpc = "route" => Len(routeCalls) = Len(ranked_destinations) + 1
    /\ tpc = "done" => tableCalls = 1 /\ Len(routeCalls) = 4

ClientCallStep ==
    /\ tableCalls' # tableCalls => routeCalls = << >> /\ routeCalls' = << >>
    /\ routeCalls' # routeCalls
           => /\ tableCalls' = tableCalls
              /\ Len(routeCalls') = Len(routeCalls) + 1
              /\ SubSeq(routeCalls', 1, Len(routeCalls)) = routeCalls

\* C19: a successful solve_tsp_route call makes one matrix call, before any
\* detail-route call, and then one detail-route call per leg of the winning
\* order, one after the other in visiting order, each from the point visited
\* before to the next destination.
C19_ClientCalls == []ClientCalls /\ [][ClientCallStep]_vars

C19_Witness ==
    /\ tpc = "done"
    /\ Len(routeCalls) = 4
    /\ best.order = <<2, 3, 4, 1>>
    /\ routeCalls[4] = [from |-> destinations[4], to |-> destinations[1]]
    /\ legOutcomes[2] = "raise"

\* The order that a matrix and a flag determine: of the permutations of least
\* path distance, the first in lexicographic order.
OrderOf(cells, closing) ==
    CHOOSE p \in PermSet :
        \A q \in PermSet :
            \/ PathSum(cells, p, closing) < PathSum(cells, q, closing)
            \/ /\ PathSum(cells, p, closing) = PathSum(cells, q, closing)
               /\ (p = q \/ LexLess(p, q))

LegDistanceSum ==
    result.ranked_destinations[1].leg.distance_m
        + result.ranked_destinations[2].leg.distance_m
        + result.ranked_destinations[3].leg.distance_m
        + result.ranked_destinations[4].leg.distance_m

\* C21: the order and the totals of a result are those that the matrix and
\* return_to_origin determine, whatever the detail-route calls did: the
\* selected order is OrderOf(distances, flag) from its selection on, the
\* returned entries are the destinations in that order, and the totals are
\* the path sums of the two tables along it.
C21_OrderFromMatrixAlone ==
    Selected =>
        LET p == OrderOf(table_data.distances.cells, return_to_origin)
        IN  /\ best.order = p
            /\ tpc = "done" =>
                   /\ result.optimal_route.total_distance_m =
                          PathSum(table_data.distances.cells, p, return_to_origin)
                   /\ result.optimal_route.total_duration_s =
                          PathSum(table_data.durations.cells, p, return_to_origin)
                   /\ Len(result.ranked_destinations) = 4
                   /\ \A k \in 1..4 :
                          LET e == result.ranked_destinations[k]
                          IN  [label |-> e.label, lat |-> e.lat, lon |-> e.lon]
                                  = destinations[p[k]]

\* A result whose legs came from a candidate, an empty list and a failure,
\* and whose leg distances do not sum to total_distance_m.
C21_Witness ==
    /\ tpc = "done"
    /\ legOutcomes = <<"ok", "empty", "raise", "ok">>
    /\ best.order # <<1, 2, 3, 4>>
    /\ LegDistanceSum # result.optimal_route.total_distance_m

\* C22: a returned result has 4 ranked entries, ranked 1, 2, 3, 4 in sequence;
\* the entries are the 4 input destinations, each position of the input in
\* exactly one entry; and each leg's 'from' is the label of the entry before
\* it, the origin's label for rank 1.
C22_RankedEntries ==
    result.returned =>
        LET r == result.ranked_destinations
        IN  /\ Len(r) = 4
            /\ \A k \in 1..4 : r[k].rank = k
            /\ \E p \in PermSet :
                   \A k \in 1..4 :
                       [label |-> r[k].label, lat |-> r[k].lat, lon |-> r[k].lon]
                           = destinations[p[k]]
            /\ \A k \in 1..4 :
                   r[k].leg.from = IF k = 1 THEN origin.label ELSE r[k - 1].label

\* A result in another order than the input's, with a destination that
\* equals the origin and a failed leg.
C22_Witness ==
    /\ result.returned
    /\ result.ranked_destinations[1].label # destinations[1].label
    /\ \E k \in 2..4 : result.ranked_destinations[k].leg.from = origin.label
    /\ "raise" \in {legOutcomes[k] : k \in 1..4}

\* C4: after a usable matrix no detail-route outcome makes the call raise:
\* every outcome yields one more ranked entry, and the call ends with a
\* result holding optimal_route and 4 ranked destinations.
C4_NoLegAborts ==
    MatrixUsable =>
        /\ tpc \in {"route", "done"}
        /\ error = None
        /\ Len(ranked_destinations) = Len(legOutcomes)
        /\ tpc = "route" => Len(ranked_destinations) < 4 /\ result = NoResult
        /\ tpc = "done" =>
               /\ result.returned
               /\ Len(result.ranked_destinations) = 4
               /\ result.optimal_route.total_distance_m = best.total_distance

C4_Witness ==
    /\ tpc = "done"
    /\ \E k \in 2..4 :
           /\ legOutcomes[k] = "empty"
           /\ best.order[k] = 1
           /\ from_point # origin
    /\ \E k \in 1..4 : legOutcomes[k] = "raise"
    /\ \E k \in 1..4 : legOutcomes[k] = "ok"

\* C5: with a destination count other than 4 the call ends in the
\* invalid-input failure and calls neither osrm_client.table nor
\* osrm_client.route.
C5_CountCheck ==
    (tpc # "idle" /\ Len(destinations) # 4) =>
        /\ tpc = "failed"
        /\ error = "ValueError: Exactly 4 destinations are required"
        /\ tableCalls = 0
        /\ routeCalls = << >>
        /\ result = NoResult

C5_Witness == tpc = "failed" /\ Len(destinations) = 5

\* C6: when osrm_client.table raised, or its answer lacks a non-empty
\* distances or durations table, the call fails, returns nothing and makes no
\* osrm_client.route call.
C6_MatrixFatal ==
    (/\ tpc \notin {"idle", "table"}
     /\ tableCalls = 1
     /\ table_data.raised \/ Falsy(table_data.distances)
            \/ Falsy(table_data.durations)) =>
        /\ tpc = "failed"
        /\ error # None
        /\ result = NoResult
        /\ ranked_destinations = << >>
        /\ routeCalls = << >>

C6_Witness ==
    /\ tpc = "failed"
    /\ tableCalls = 1
    /\ ~table_data.raised
    /\ table_data.distances.kind = "table"
    /\ table_data.durations.kind = "empty"

\* C7: with return_to_origin the totals include the cells [p3][0] of the
\* closing leg, and ranked_destinations still has 4 entries, the k-th being
\* the k-th visited destination.
C7_ClosingLeg ==
    (tpc = "done" /\ return_to_origin) =>
        LET p == best.order
            d == table_data.distances.cells
            u == table_data.durations.cells
        IN  /\ result.optimal_route.total_distance_m =
                   d[0][p[1]] + d[p[1]][p[2]] + d[p[2]][p[3]] + d[p[3]][p[4]]
                       + d[p[4]][0]
            /\ result.optimal_route.total_duration_s =
                   u[0][p[1]] + u[p[1]][p[2]] + u[p[2]][p[3]] + u[p[3]][p[4]]
                       + u[p[4]][0]
            /\ Len(result.ranked_destinations) = 4
            /\ \A k \in 1..4 :
                   /\ result.ranked_destinations[k].rank = k
                   /\ result.ranked_destinations[k].label =
                          destinations[p[k]].label

C7_Witness ==
    /\ tpc = "done"
    /\ return_to_origin
    /\ table_data.distances.cells[best.order[4]][0] > 0
    /\ table_data.durations.cells[best.order[4]][0] > 0

(***************************************************************************)
(* Properties of TTLCache (under SpecCache).                               *)
(***************************************************************************)
\* C8: a get of a key whose entry was set at t and has been neither
\* overwritten nor evicted returns the stored value while now - t <= ttl and
\* None once now - t > ttl, and returns None after any get that returned None.
C8_Expiry ==
    (lastOp.op = "get" /\ live[lastOp.key] # NoEntry) =>
        LET e == live[lastOp.key]
        IN  /\ lastOp.at - e.t <= ttl => lastOp.result = e.v
            /\ lastOp.at - e.t > ttl => lastOp.result = None
            /\ lastOp.priorAbsent => lastOp.result = None

C8_Witness ==
    /\ lastOp.op = "get"
    /\ live[lastOp.key] # NoEntry
    /\ lastOp.at - live[lastOp.key].t > ttl
    /\ lastOp.priorAbsent
    /\ lastOp.result = None

\* C9: from an empty cache, under serialized calls, the store never holds
\* more than max_size entries once a set has returned.
C9_SizeBound == Len(store) <= max_size

C9_Witness ==
    /\ lastOp.op = "set"
    /\ lastOp.sizeBefore = max_size
    /\ lastOp.evicted # {}
    /\ Len(store) = max_size

(***************************************************************************)
(* Properties of geocode (under SpecGeo).                                  *)
(***************************************************************************)
AllWhitespace(q) == \A i \in 1..Len(q) : q[i] \in Whitespace

BlankCallReturned ==
    (calls > 0 /\ AllWhitespace(query)) =>
        /\ gpc = "done"
        /\ georesult = "[]"
        /\ geoerror = NoError
        /\ requests = 0
        /\ waits = << >>
        /\ cacheReads = 0
        /\ cacheWrites = 0

BlankCallFrame ==
    (calls' = calls + 1 /\ AllWhitespace(query')) =>
        (store' = store /\ now' = now)

\* The entries of a store, as a set.
Entries(s) == {s[i] : i \in 1..Len(s)}

\* A step that is a set call, and the entry it writes.
IsSet == lastOp'.op = "set" /\ lastOp' # lastOp
SetEntry == [key |-> lastOp'.key, ts |-> now, value |-> lastOp'.value]

SetStep ==
    IsSet =>
        /\ SetEntry \in Entries(store')
        /\ Entries(store') \subseteq Entries(store) \cup {SetEntry}
        /\ IF DictHas(store, lastOp'.key)
           THEN DictKeys(store') = DictKeys(store)
           ELSE IF Len(store) < max_size
           THEN DictKeys(store') = DictKeys(store) \cup {lastOp'.key}
           ELSE \E x \in DictKeys(store) :
                    /\ DictKeys(store') =
                           (DictKeys(store) \ {x}) \cup {lastOp'.key}
                    /\ \A e \in Entries(store) : DictGet(store, x).ts <= e.ts

\* C16: a set that makes the store exceed max_size removes exactly one entry,
\* one of least timestamp, and never the entry just set; a set of a key that
\* is present refreshes its timestamp and removes nothing; every other entry
\* is left as it was.
C16_EvictsOldest == [][SetStep]_vars

C16_Witness ==
    /\ lastOp.op = "set"
    /\ Cardinality(lastOp.evicted) = 1
    /\ lastOp.key \notin lastOp.evicted
    /\ Len(store) = max_size
    /\ store[1].ts < store[2].ts
    /\ \E x \in lastOp.evicted : live[x] = NoEntry

\* The store after a set that overwrote a key: nothing was removed.
C16_OverwriteWitness ==
    /\ lastOp.op = "set"
    /\ lastOp.evicted = {}
    /\ lastOp.sizeBefore = max_size
    /\ Len(store) = max_size
    /\ store[1].key = lastOp.key
    /\ store[1].ts > store[2].ts

\* C10: a geocode call with an empty or whitespace-only query returns the
\* empty list for every limit, with no upstream request, no wait and no
\* cache read or write: the store and the clock are as before the call.
C10_BlankQuery == []BlankCallReturned /\ [][BlankCallFrame]_vars

C10_Witness ==
    /\ gpc = "done"
    /\ calls = 2
    /\ query = <<"\t", " ">>
    /\ limit = 5
    /\ store # << >>
    /\ georesult = "[]"

\* The current geocode call repeats an earlier successful one of the same
\* query and limit, and started within ttl of that one's caching.
Repeat ==
    /\ calls > 0
    /\ ~blank(query)
    /\ prior.entry # NoFetch
    /\ prior.at - prior.entry.t <= ttl

\* The current call was answered from the cache.
ServedFromCache ==
    /\ gpc = "done"
    /\ georesult = prior.entry.v
    /\ requests = 0
    /\ lastResponse = NoResponse

\* The current call got a 200, returned its body and cached it.
Got200 ==
    lastResponse.kind = "http" /\ lastResponse.status = 200
        => /\ gpc = "done"
           /\ georesult = lastResponse.body
           /\ DictHas(store, cache_key(query, limit))
           /\ DictGet(store, cache_key(query, limit)).value = lastResponse.body

\* C11 as stated: a 200 returns the body and caches it, and every repeat of
\* the call within the TTL window is served from the cache, whatever calls
\* were made in between.
C11_RepeatAlwaysCached ==
    /\ Got200
    /\ Repeat => ServedFromCache

\* C11, amended: a 200 returns the body and caches it, and a repeat of the
\* call within the TTL window is served from the cache unless the cached body
\* is JSON null or the entry was evicted in between by the size bound.
C11_RepeatCached ==
    /\ Got200
    /\ Repeat /\ prior.entry.v # None /\ ~prior.entry.evicted => ServedFromCache

C11_Witness ==
    /\ Repeat
    /\ ServedFromCache
    /\ calls >= 3
    /\ georesult = "[]"
    /\ prior.at > prior.entry.t
    /\ Len(store) = max_size

\* A repeat within the TTL window that goes upstream: the entry was evicted.
C11_EvictedRepeat ==
    /\ Repeat
    /\ prior.entry.evicted
    /\ prior.entry.v # None
    /\ gpc = "waiting"

\* A repeat within the TTL window that goes upstream: the body was null.
C11_NullRepeat ==
    /\ Repeat
    /\ ~prior.entry.evicted
    /\ prior.entry.v = None
    /\ gpc = "waiting"

\* A step of the call in progress that handles the answer to a requests.get.
Answered == gpc = "waiting" /\ calls' = calls /\ geoVars' # geoVars

RetryableAnswer(r) ==
    r.kind = "transport" \/ (r.kind = "http" /\ r.status \in {429, 503})

AttemptsBounded ==
    /\ requests <= 3
    /\ gpc = "waiting" => requests = attempt + 1 /\ attempt < 3
    /\ gpc \in {"done", "failed"} /\ lastResponse # NoResponse
           => requests = attempt + 1

AnswerStep ==
    Answered =>
        /\ gpc' \in {"done", "failed"} \/ attempt' = attempt + 1
        /\ requests' > requests
               => requests' = requests + 1 /\ RetryableAnswer(lastResponse')
        /\ ~RetryableAnswer(lastResponse')
               => /\ requests' = requests
                  /\ gpc' = IF lastResponse'.status = 200 THEN "done" ELSE "failed"

\* C12: a geocode call that misses the cache issues at most 3 requests; each
\* answer either ends the call or moves it to the next of the 3 attempts, so
\* the call ends by its third answer; a further request follows only a
\* transport failure or a 429/503, and a 200, a 403 or any other status ends
\* the call on the attempt that received it.
C12_BoundedRetries == []AttemptsBounded /\ [][AnswerStep]_vars

C12_Witness ==
    /\ gpc = "done"
    /\ requests = 3
    /\ last_error # None
    /\ lastResponse.status = 200

\* The call failed with the 'blocked' error exactly when its last answer was
\* a 403.
BlockedIs403 ==
    (gpc = "failed" /\ geoerror.kind = "blocked")
        <=> (gpc = "failed" /\ lastResponse.kind = "http"
                /\ lastResponse.status = 403)

Answered403 ==
    Answered /\ lastResponse'.kind = "http" /\ lastResponse'.status = 403
        => /\ gpc' = "failed"
           /\ geoerror'.kind = "blocked"
           /\ requests' = requests
           /\ waits' = waits
           /\ now' = now
           /\ store' = store
           /\ cacheWrites' = cacheWrites

\* C13: a 403 on any attempt ends the call at once with the 'blocked' error,
\* which no other failure carries, with no further request, no wait and no
\* cache write.
C13_Blocked == []BlockedIs403 /\ [][Answered403]_vars

C13_Witness ==
    /\ gpc = "failed"
    /\ geoerror.kind = "blocked"
    /\ requests = 3
    /\ waits = <<1, 2>>
    /\ store = << >>

\* C17: in a geocode call that went upstream, the waits are those that
\* follow attempts 1..requests-1, of 1.5 s times the attempt number (the
\* model's time unit is 1.5 s): each wait lies between two attempts, and a
\* call that used all 3 attempts waited twice, 1.5 s and 3.0 s.
C17_WaitsBetweenAttempts ==
    requests > 0 => waits = [i \in 1..(requests - 1) |-> i]

\* A call that used up its 3 attempts and slept after each of them.
C17_WaitAfterLastAttempt ==
    /\ gpc = "failed"
    /\ geoerror.kind = "unavailable"
    /\ requests = 3
    /\ waits = <<1, 2, 3>>

\* What a failed attempt has to report: the transport error's text, or the
\* retryable status.
DetailOf(r) ==
    IF r.kind = "transport" THEN r.detail
    ELSE IF r.status = 429 THEN "HTTP 429"
    ELSE IF r.status = 503 THEN "HTTP 503"
    ELSE None

\* C18: a call whose 3 attempts all met retryable conditions fails with the
\* 'unavailable' error, and the detail of that error is the one of the third
\* attempt.
C18_LastAttemptDetail ==
    gpc = "failed" /\ requests = 3 /\ RetryableAnswer(lastResponse)
        => /\ geoerror.kind = "unavailable"
           /\ geoerror.detail = DetailOf(lastResponse)

\* The error reports the first attempt's transport error although two
\* rate-limited attempts followed it.
C18_StaleDetail ==
    /\ gpc = "failed"
    /\ geoerror.kind = "unavailable"
    /\ lastResponse.kind = "http"
    /\ waits = <<1, 2, 3>>
    /\ geoerror.detail \in {"timeout", "reset"}

(***************************************************************************)
(* Properties of osrm_client.route and osrm_client.table (under SpecOsrm). *)
(***************************************************************************)
OsrmRequests ==
    /\ orequests <= 1
    /\ opc = "waiting" \/ oresponse # NoOsrmResponse => orequests = 1

\* A step of the call in progress that handles the answer to its requests.get.
OsrmAnswered == opc = "waiting" /\ ocalls' = ocalls /\ osrmVars' # osrmVars

\* The step makes no further request and no wait; a failing answer ends the
\* call as failed with nothing cached, a 2xx answer that parses ends it with
\* the body returned, and a returned body is the answer's and is cached.
OsrmAnswerStep(failing) ==
    OsrmAnswered =>
        /\ orequests' = orequests
        /\ now' = now
        /\ opc' \in {"done", "failed"}
        /\ failing => opc' = "failed" /\ store' = store /\ oresult' = None
        /\ oresponse'.status \in 200..299 /\ oresponse'.body # Invalid
               => opc' = "done"
        /\ opc' = "done"
               => /\ oresult' = oresponse'.body
                  /\ DictHas(store', okey)
                  /\ DictGet(store', okey) =
                         [key |-> okey, ts |-> now, value |-> oresponse'.body]

C14_Accepted3xx ==
    /\ opc = "done"
    /\ oresponse.status = 304
    /\ oresult = "{routes}"
    /\ DictHas(store, okey)

(***************************************************************************)
(* Properties of two unsynchronized set calls (under SpecConc).            *)
(***************************************************************************)
NoneInside == \A t \in Threads : ~Inside(t)
ConcDone == \A t \in Threads : pc[t] \in {"done", "raised"}
SameVictim == oldest[1] # None /\ oldest[1] = oldest[2]

\* C20: while the set calls are serialized the store holds at most max_size
\* entries after each of them; two calls that overlap can end with more, and
\* then both picked the same victim or min() raised in one of them.
C20_BoundNeedsSerialization ==
    /\ NoneInside /\ ~overlapped => Len(store) <= max_size
    /\ ConcDone /\ Len(store) > max_size
           => overlapped /\ (SameVictim \/ \E t \in Threads : pc[t] = "raised")

\* Both calls returned, both picked the same victim, and the store holds one
\* entry more than max_size.
C20_Witness ==
    /\ \A t \in Threads : pc[t] = "done"
    /\ SameVictim
    /\ setKey[1] # setKey[2]
    /\ Len(store) = max_size + 1

(***************************************************************************)
(* Properties of the three clients' failures (under SpecClients).          *)
(***************************************************************************)
\* After a failed call the cache is the one the call found.
CacheAsBefore ==
    /\ gpc = "failed" => store = gbefore.store
    /\ opc = "failed" => store = obefore.store

\* After a failed call on key k the cache is the one the call found, b,
\* except that an entry of k that had expired by then may be gone.
FrameAfterFailure(b, k) ==
    /\ store = SelectSeq(b.store, LAMBDA e : e \in Entries(store))
    /\ \A e \in Entries(b.store) \ Entries(store) :
           e.key = k /\ b.at - e.ts > ttl

CacheAsBeforeButExpired ==
    /\ gpc = "failed" => FrameAfterFailure(gbefore, cache_key(query, limit))
    /\ opc = "failed" => FrameAfterFailure(obefore, okey)

\* The call that follows a failed one with the same arguments misses the
\* cache and goes upstream.
RetriedUpstream ==
    /\ gpc = "failed" /\ calls' = calls + 1 /\ query' = query /\ limit' = limit
           => gpc' = "waiting" /\ requests' = 1
    /\ opc = "failed" /\ ocalls' = ocalls + 1 /\ okey' = okey
           => opc' = "waiting" /\ orequests' = 1

\* C23 as stated: a geocode, table or route call that fails leaves the
\* client's cache exactly as it was before the call, and the next call with
\* the same arguments goes upstream.
C23_FailureLeavesCache == []CacheAsBefore /\ [][RetriedUpstream]_vars

\* C23, amended: a geocode, table or route call that fails adds no entry to
\* the client's cache and changes none; at most its lookup has removed the
\* expired entry of its own key; and the next call with the same arguments
\* goes upstream.
C23_FailureAddsNothing == []CacheAsBeforeButExpired /\ [][RetriedUpstream]_vars

\* A geocode call that used up its attempts, after its lookup had removed
\* the expired entry of its key.
C23_Witness ==
    /\ gpc = "failed"
    /\ geoerror.kind = "unavailable"
    /\ Len(gbefore.store) = 1
    /\ gbefore.store[1].key = cache_key(query, limit)
    /\ store = << >>

\* A table call that failed on a 404 with a route entry in the cache.
C23_OsrmWitness ==
    /\ opc = "failed"
    /\ oresponse.status = 404
    /\ okey[1] = "table"
    /\ store # << >>
    /\ store = obefore.store

Init == CacheInit /\ GeoInit /\ TspInit /\ OsrmInit /\ ConcInit

\* The cache under serialized get and set calls.
NextCache ==
    \/ \E k \in Keys : get(k)
    \/ \E k \in Keys, v \in Values : set(k, v)
    \/ Tick

SpecCache == Init /\ [][NextCache]_vars

\* geocode calls, one at a time, against the upstream and its cache.
NextGeo ==
    \/ \E q \in Queries, lim \in Limits : calls < MaxCalls /\ geocode(q, lim)
    \/ \E o \in Upstream : geocode_response(o)
    \/ Tick

SpecGeo == Init /\ [][NextGeo]_vars

\* Longer runs of geocode calls, each answered at its first attempt by a
\* response that ends the call; the clock moves between the steps.
NextGeoRepeat ==
    \/ \E q \in RepeatQueries, lim \in {5} :
           calls < MaxRepeatCalls /\ geocode(q, lim)
    \/ \E o \in {u \in Upstream : u.status \in {200, 500}} :
           geocode_response(o)
    \/ Tick

SpecGeoRepeat == Init /\ [][NextGeoRepeat]_vars

\* One solve_tsp_route call against the OSRM client.
NextOsrm ==
    \/ \E c \in Coords : ocalls < MaxOsrmCalls /\ route(c, "full")
    \/ \E c \in Coords : ocalls < MaxOsrmCalls /\ table(c)
    \/ \E o \in OsrmUpstream : osrm_response(o)
    \/ Tick

SpecOsrm == Init /\ [][NextOsrm]_vars

\* Serialized set calls fill the cache; then the two threads run.
NextConc ==
    \/ \E k \in PrefillKeys : (\A t \in Threads : pc[t] = "idle") /\ set(k, "v1")
    \/ \E t \in Threads, k \in ThreadKeys : assign(t, k)
    \/ \E t \in Threads : len_check(t)
    \/ \E t \in Threads : min_begin(t)
    \/ \E t \in Threads : min_end(t)
    \/ \E t \in Threads : pop(t)
    \/ Tick

SpecConc == Init /\ [][NextConc]_vars

\* One client and its cache: the run is of geocode or of route and table.
NextClients ==
    \/ \E q \in Queries, lim \in Limits :
           ocalls = 0 /\ calls < MaxCalls /\ geocode(q, lim)
    \/ \E o \in Upstream : geocode_response(o)
    \/ \E c \in Coords :
           calls = 0 /\ ocalls < MaxOsrmCalls /\ route(c, "full")
    \/ \E c \in Coords : calls = 0 /\ ocalls < MaxOsrmCalls /\ table(c)
    \/ \E o \in OsrmUpstream : osrm_response(o)
    \/ Tick

SpecClients == Init /\ [][NextClients]_vars

NextTsp ==
    \/ \E dests \in DestinationLists, rto \in BOOLEAN : solve_tsp_route(dests, rto)
    \/ \E resp \in TableResponses : table_return(resp)
    \/ \E o \in RouteOutcomes : route_return(o)

SpecTsp == Init /\ [][NextTsp]_vars

=============================================================================
